---- MODULE Spec2Model ----
(***************************************************************************)
(* Model of the two command line programs of jons-mcp-playwright:          *)
(*   src/screenshot_snapshot.py  (tree generator: validate, assign_refs,   *)
(*                                draw_annotations, main)                  *)
(*   src/locate/locate.py        (marker locator: locate, main)            *)
(* A run of either program is a sequence of steps of its main(); the       *)
(* variable pc is the position in main().  The vision model, the image     *)
(* file and the contour extraction are inputs drawn from bounded sets.     *)
(***************************************************************************)
EXTENDS Integers, Sequences, FiniteSets, TLC

VARIABLES
    prog,               \* which program runs: "snapshot" or "locate"
    pc,                 \* position in main()
    api_key,            \* GEMINI_API_KEY is set
    image_exists,       \* the input image file exists
    annotate,           \* snapshot: --annotate was given
    width, height,      \* size of the input image
    response,           \* snapshot: the forest parsed from the model's reply
    elements,           \* snapshot: the forest as main() holds it
    errors,             \* snapshot: the warnings list
    validated,          \* snapshot: the validate loop has run
    refs_assigned,      \* snapshot: assign_refs has run
    drawn,              \* snapshot: what draw_annotations drew, in order
    out_size,           \* locate: <<output_width, output_height>>
    contours,           \* locate: the contours found in the cleaned mask
    result,             \* the result dictionary being built / returned
    stdout,             \* what was printed on stdout
    stderr,             \* what was printed on stderr
    exit_status,        \* -1 while running, else the process exit status
    api_called,         \* generate_content has been invoked
    annotated_written   \* an annotated image file has been written

vars == <<prog, pc, api_key, image_exists, annotate, width, height, response,
          elements, errors, validated, refs_assigned, drawn, out_size,
          contours, result, stdout, stderr, exit_status, api_called,
          annotated_written>>

(***************************************************************************)
(* Bounds                                                                  *)
(***************************************************************************)
MaxNodes == 3           \* nodes of a forest returned by the model (Spec)
MaxDepth == 3           \* nesting depth of such a forest
MaxRenderNodes == 8     \* nodes of a forest in SpecRender
MaxContours == 2        \* contours found in the cleaned mask
MaxArea == 2            \* zeroth moment of a contour
MaxText == 3            \* width and height of a rendered label text

(***************************************************************************)
(* Program constants                                                       *)
(***************************************************************************)
MODEL == "gemini-2.0-flash-exp"

OKABE_ITO_COLORS ==
    << <<230, 159, 0>>, <<86, 180, 233>>, <<0, 158, 115>>, <<240, 228, 66>>,
       <<0, 114, 178>>, <<213, 94, 0>>, <<204, 121, 167>> >>

ARIA_ROLES ==
    { "button", "link", "checkbox", "radio", "switch", "slider",
      "textbox", "combobox", "listbox", "option", "menu", "menuitem",
      "menubar", "tab", "tablist", "tabpanel", "progressbar", "scrollbar",
      "spinbutton", "tree", "treeitem",
      "img", "heading", "label", "paragraph", "code", "list", "listitem",
      "table", "row", "cell", "columnheader", "rowheader", "grid", "gridcell",
      "separator", "figure", "group", "generic",
      "dialog", "alertdialog", "toolbar", "navigation", "form", "region",
      "banner", "main", "search",
      "alert", "status", "tooltip" }

Min(a, b) == IF a < b THEN a ELSE b
Max(a, b) == IF a > b THEN a ELSE b

(***************************************************************************)
(* Inputs: the forests the vision model may return.  A node is a record    *)
(* [role, bounding_box, children]; a missing "children" key reads as the   *)
(* empty list (el.get('children', [])).  The schema fixes neither the      *)
(* length nor the order nor the range of bounding_box.                     *)
(***************************************************************************)
NodeKinds ==
    { [bounding_box |-> <<0, 0, 1, 1>>,     role |-> "button"],  \* in bounds
      [bounding_box |-> <<-1, 4, 5, 9>>,    role |-> "bogus"],   \* out of bounds
      [bounding_box |-> <<2, 0, 1, 1>>,     role |-> "button"],  \* y inverted
      [bounding_box |-> <<3, 7, 3, 6>>,     role |-> "link"],    \* x inverted, outside
      [bounding_box |-> <<0, 0, 1>>,        role |-> "button"],  \* 3 components
      [bounding_box |-> <<0, 0, 1, 1, 2>>,  role |-> "bogus"] }  \* 5 components

DrawnKind == [bounding_box |-> <<0, 0, 1, 1>>, role |-> "button"]
SkippedKind == [bounding_box |-> <<0, 0, 1>>, role |-> "button"]

ImageSizes == { <<2, 3>>, <<3, 2>> }        \* <<width, height>>

\* A forest of n nodes is given by its nodes in pre-order: shape[i] is the
\* nesting depth of node i and kinds[i] its kind.  The first node is a root,
\* and a node lies at most one level below the node before it.
ForestShapes(n, d) ==
    { sh \in [1..n -> 0..(d - 1)] :
        /\ n > 0 => sh[1] = 0
        /\ \A i \in 1..(n - 1) : sh[i + 1] <= sh[i] + 1 }

\* node appended at nesting depth d below the last top-level node of forest
RECURSIVE AppendAt(_, _, _)
AppendAt(forest, d, node) ==
    IF d = 0 THEN Append(forest, node)
    ELSE [forest EXCEPT ![Len(forest)].children = AppendAt(@, d - 1, node)]

RECURSIVE BuildForest(_, _, _, _)
BuildForest(shape, kinds, i, acc) ==
    IF i > Len(shape) THEN acc
    ELSE BuildForest(shape, kinds, i + 1,
             AppendAt(acc, shape[i],
                      [role |-> kinds[i].role,
                       bounding_box |-> kinds[i].bounding_box,
                       children |-> <<>>]))

\* the replies of Spec: forests of up to MaxNodes nodes, of every shape of
\* nesting depth up to MaxDepth and of every kind of node
SmallShapes == [n \in 0..MaxNodes |-> ForestShapes(n, MaxDepth)]

\* the replies of SpecRender: forests of more nodes than the palette has
\* colors, every node drawable or skipped; the shapes are a first root with
\* j - 1 children followed by roots, and a chain of j nested nodes whose last
\* node holds the remaining nodes as children
RenderSizes == (Len(OKABE_ITO_COLORS) + 1)..MaxRenderNodes
RenderShapes ==
    [n \in RenderSizes |->
        { [i \in 1..n |-> IF 1 < i /\ i <= j THEN 1 ELSE 0] : j \in 1..n }
        \cup { [i \in 1..n |-> Min(i - 1, j)] : j \in 1..(n - 1) }]
RenderKinds == { DrawnKind, SkippedKind }

(***************************************************************************)
(* validate_element                                                        *)
(***************************************************************************)
\* a warning f"{path}: {msg}..." ; path <<i, j, ..>> stands for
\* "elements[i].children[j]..." and args are the values quoted in the text
Warning(path, msg, args) == [path |-> path, msg |-> msg, args |-> args]

\* variant: only a box that is too short counts as malformed
Malformed_lt(bbox) == Len(bbox) < 4
Malformed(bbox) == Len(bbox) # 4

\* variant: a box of no extent counts as inverted
BadOrder_ge(bbox) == bbox[1] >= bbox[3] \/ bbox[2] >= bbox[4]
BadOrder(bbox) == bbox[1] > bbox[3] \/ bbox[2] > bbox[4]

\* variant: no lower limit
Clamp_noLower(v, hi) == Min(hi, v)
Clamp(v, hi) == Max(0, Min(hi, v))

\* variant: y_max held to the width and x_max to the height
ClampBox_swapped(bbox, w, h) ==
    << Clamp(bbox[1], h), Clamp(bbox[2], w),
       Clamp(bbox[3], w), Clamp(bbox[4], h) >>
ClampBox(bbox, w, h) ==
    << Clamp(bbox[1], h), Clamp(bbox[2], w),
       Clamp(bbox[3], h), Clamp(bbox[4], w) >>

RECURSIVE validate_element(_, _, _, _, _)
RECURSIVE validate_each(_, _, _, _, _, _)

\* returns [el |-> the element after the in-place update, errors |-> list]
validate_element(el, w, h, errs, path) ==
    LET bbox == el.bounding_box IN
    IF Malformed(bbox)
    THEN [el |-> el,
          errors |-> Append(errs, Warning(path, "invalid bounding_box length", <<>>))]
    ELSE
      LET e1 == IF BadOrder(bbox)
                THEN Append(errs, Warning(path, "invalid bbox dimensions",
                                 <<bbox[1], bbox[3], bbox[2], bbox[4]>>))
                ELSE errs
          e2 == IF el.role \notin ARIA_ROLES
                THEN Append(e1, Warning(path, "invalid role", <<el.role>>))
                ELSE e1
          sub == validate_each(el.children, w, h, e2, path, 0)
      IN [el |-> [el EXCEPT !.bounding_box = ClampBox(bbox, w, h),
                            !.children = sub.els],
          errors |-> sub.errors]

\* for i, child in enumerate(els) from index i on:
\*     validate_element(child, w, h, errors, path + [i])
validate_each(els, w, h, errs, path, i) ==
    IF i >= Len(els) THEN [els |-> els, errors |-> errs]
    ELSE LET r == validate_element(els[i + 1], w, h, errs, Append(path, i))
         IN validate_each([els EXCEPT ![i + 1] = r.el], w, h, r.errors, path, i + 1)

(***************************************************************************)
(* assign_refs                                                             *)
(***************************************************************************)
Ref(n) == "v" \o ToString(n)

\* variant: the counter is not advanced
NextCounter_same(c) == c
NextCounter(c) == c + 1

RECURSIVE assign_refs(_, _)
\* returns [els |-> the elements carrying refs, counter |-> counter['value']]
assign_refs(els, counter) ==
    IF els = <<>> THEN [els |-> <<>>, counter |-> counter]
    ELSE LET el == Head(els)
             sub == assign_refs(el.children, NextCounter(counter))
             rest == assign_refs(Tail(els), sub.counter)
         IN [els |-> << [role |-> el.role, bounding_box |-> el.bounding_box,
                         children |-> sub.els, ref |-> Ref(counter)] >>
                     \o rest.els,
             counter |-> rest.counter]

(***************************************************************************)
(* draw_annotations                                                        *)
(***************************************************************************)
RECURSIVE flatten(_)
flatten(els) ==
    IF els = <<>> THEN <<>>
    ELSE <<Head(els)>> \o flatten(Head(els).children) \o flatten(Tail(els))

\* variant: the rotation starts at the second color
ColorIndex_shift(i) == (i + 1) % Len(OKABE_ITO_COLORS)
ColorIndex(i) == i % Len(OKABE_ITO_COLORS)

\* ImageDraw.rectangle([x0, y0, x1, y1]) of the required Pillow (>= 10)
\* raises ValueError when x1 < x0 or y1 < y0
RectangleRaises(x0, y0, x1, y1) == x1 < x0 \/ y1 < y0

\* draw.textbbox((0, 0), label, font=font): <<text_width, text_height>> of a
\* label in the font that was found; the refs drawn in one run are taken to
\* be of one size
TextSizes == { <<tw, th>> : tw \in 1..MaxText, th \in 1..MaxText }
SmallText == { <<1, 1>> }

\* label_x (label_y) for a box starting at lo, a text of extent text and an
\* image of extent side: lo + 2, moved to side - text - 4 when lo + 2 + text
\* + 4 exceeds side
LabelAnchor(lo, text, side) ==
    IF (lo + 2) + text + 4 > side THEN side - text - 4 ELSE lo + 2

RECURSIVE draw_each(_, _, _, _, _, _)
\* the loop over enumerate(flat_elements) from index i on, on an image of
\* w x h with label texts of size ts; acc is what has been drawn; returns
\* [drawn, ok], ok = FALSE when a drawing call raised
draw_each(flat, i, acc, w, h, ts) ==
    IF i >= Len(flat) THEN [drawn |-> acc, ok |-> TRUE]
    ELSE LET el == flat[i + 1]
             bbox == el.bounding_box
         IN \* el.get('ref', ..) finds the ref that assign_refs has set
            IF Len(bbox) # 4 THEN draw_each(flat, i + 1, acc, w, h, ts)
            ELSE IF RectangleRaises(bbox[2], bbox[1], bbox[4], bbox[3])
                 THEN [drawn |-> acc, ok |-> FALSE]
                 ELSE
                   LET label_x == LabelAnchor(bbox[2], ts[1], w)
                       label_y == LabelAnchor(bbox[1], ts[2], h)
                   IN IF RectangleRaises(label_x - 2, label_y - 2,
                                         label_x + ts[1] + 2, label_y + ts[2] + 2)
                      THEN [drawn |-> acc, ok |-> FALSE]
                      ELSE draw_each(flat, i + 1,
                             Append(acc, [index |-> i, ref |-> el.ref, bbox |-> bbox,
                                          color |-> OKABE_ITO_COLORS[ColorIndex(i) + 1],
                                          text_width |-> ts[1], text_height |-> ts[2],
                                          label_x |-> label_x, label_y |-> label_y]),
                             w, h, ts)

draw_annotations(els, w, h, ts) == draw_each(flatten(els), 0, <<>>, w, h, ts)

(***************************************************************************)
(* locate: contours, centroid and the normalize / rescale round trip       *)
(***************************************************************************)
LocateSides == { 3, 8 }     \* side lengths of the input and output images

\* a contour as cv2.moments / cv2.contourArea describe it: m00 is its area,
\* m10 / m00 and m01 / m00 its centroid, which lies on the output image.
\* CornerRegions: contours of any area, also 0, centred on a corner
CornerRegions(ow, oh) ==
    { [m00 |-> a, m10 |-> a * cx, m01 |-> a * cy] :
        a \in 0..MaxArea, cx \in {0, ow}, cy \in {0, oh} }

\* MarkerRegions: contours of positive area centred anywhere on the image,
\* on the grid of 1 / m00 pixels
MarkerRegions(ow, oh) ==
    UNION { { [m00 |-> a, m10 |-> p, m01 |-> q] :
                p \in 0..(a * ow), q \in 0..(a * oh) } : a \in 1..MaxArea }

RECURSIVE SeqsUpTo(_, _)
SeqsUpTo(S, n) ==
    IF n = 0 THEN { <<>> }
    ELSE LET shorter == SeqsUpTo(S, n - 1)
         IN shorter \cup { Append(q, e) : q \in { t \in shorter : Len(t) = n - 1 },
                                          e \in S }

contourArea(c) == c.m00

\* variant: the first contour found is taken
Largest_first(cs) == cs[1]
\* max(contours, key=cv2.contourArea): the first contour of maximal area
Largest(cs) ==
    LET best == CHOOSE i \in 1..Len(cs) :
                   /\ \A j \in 1..Len(cs) : contourArea(cs[j]) <= contourArea(cs[i])
                   /\ \A j \in 1..(i - 1) : contourArea(cs[j]) < contourArea(cs[i])
    IN cs[best]

\* Python's round() of the non-negative quotient n / d: nearest integer,
\* a tie going to the even neighbour
Round(n, d) ==
    LET q == n \div d
        r == n % d
    IN IF 2 * r < d THEN q
       ELSE IF 2 * r > d THEN q + 1
       ELSE IF q % 2 = 0 THEN q ELSE q + 1

\* round(((m1 / m0) / out_side) * in_side), the quotient taken exactly
\* variant: the centroid is taken as a pixel of the input image
Rescale_direct(m1, m0, out_side, in_side) == Round(m1, m0)
Rescale(m1, m0, out_side, in_side) == Round(m1 * in_side, m0 * out_side)

AnnotatedPath == "input_annotated.png"

\* the part of locate() after the annotated image was saved
Detect(cs, ow, oh, iw, ih) ==
    IF cs = <<>>
    THEN [detected |-> FALSE, error |-> "No marker detected",
          annotated_image |-> AnnotatedPath]
    ELSE LET M == Largest(cs) IN
         IF M.m00 = 0
         THEN [detected |-> FALSE, error |-> "Invalid marker shape",
               annotated_image |-> AnnotatedPath]
         ELSE [detected |-> TRUE,
               x |-> Rescale(M.m10, M.m00, ow, iw),
               y |-> Rescale(M.m01, M.m00, oh, ih),
               input_width |-> iw, input_height |-> ih,
               annotated_image |-> AnnotatedPath]

(***************************************************************************)
(* The runs of the two programs                                            *)
(***************************************************************************)
Nothing == [empty |-> TRUE]

\* the except-Exception handler of the snapshot main(): the error code is
\* chosen by the keywords found in the exception text, in this order
ErrorCode(keywords) ==
    IF "quota" \in keywords THEN "quota_exceeded"
    ELSE IF "rate" \in keywords THEN "rate_limited"
    ELSE IF "auth" \in keywords \/ "api key" \in keywords THEN "auth_error"
    ELSE IF "timeout" \in keywords THEN "timeout"
    ELSE "unknown"

ExceptionTexts == { {}, {"quota", "rate"}, {"rate"}, {"auth"}, {"api key"}, {"timeout"} }

InitCommon ==
    /\ pc = "check_key"
    /\ api_key \in BOOLEAN
    /\ image_exists \in BOOLEAN
    /\ response = <<>>
    /\ elements = <<>>
    /\ errors = <<>>
    /\ validated = FALSE
    /\ refs_assigned = FALSE
    /\ drawn = <<>>
    /\ out_size = <<0, 0>>
    /\ contours = <<>>
    /\ result = Nothing
    /\ stdout = Nothing
    /\ stderr = ""
    /\ exit_status = -1
    /\ api_called = FALSE
    /\ annotated_written = FALSE

InitSnapshot ==
    /\ prog = "snapshot"
    /\ annotate \in BOOLEAN
    /\ \E sz \in ImageSizes : width = sz[1] /\ height = sz[2]
    /\ InitCommon

InitLocate ==
    /\ prog = "locate"
    /\ annotate = FALSE
    /\ width \in LocateSides
    /\ height \in LocateSides
    /\ InitCommon

Init == InitSnapshot \/ InitLocate

\* print(json.dumps(obj)); sys.exit(status)
Exit(obj, err, status) ==
    /\ stdout' = obj
    /\ stderr' = err
    /\ exit_status' = status
    /\ pc' = "done"

\* variant: the credential is not looked at
SnapKeyMissing_never(key) == FALSE
SnapKeyMissing(key) == ~key

SnapCheckKey ==
    /\ prog = "snapshot" /\ pc = "check_key"
    /\ IF SnapKeyMissing(api_key)
       THEN Exit([error |-> "GEMINI_API_KEY environment variable not set",
                  error_code |-> "auth_missing"], "", 1)
       ELSE /\ pc' = "check_file"
            /\ UNCHANGED <<stdout, stderr, exit_status>>
    /\ UNCHANGED <<prog, api_key, image_exists, annotate, width, height,
                   response, elements, errors, validated, refs_assigned, drawn,
                   out_size, contours, result, api_called, annotated_written>>

SnapCheckFile ==
    /\ prog = "snapshot" /\ pc = "check_file"
    /\ IF ~image_exists
       THEN Exit([error |-> "Image not found", error_code |-> "file_not_found"], "", 1)
       ELSE /\ pc' = "call_api"
            /\ UNCHANGED <<stdout, stderr, exit_status>>
    /\ UNCHANGED <<prog, api_key, image_exists, annotate, width, height,
                   response, elements, errors, validated, refs_assigned, drawn,
                   out_size, contours, result, api_called, annotated_written>>

\* generate_content raises, or json.loads finds the reply not to be JSON
SnapCallGeminiFails ==
    /\ prog = "snapshot" /\ pc = "call_api"
    /\ api_called' = TRUE
    /\ \/ \E kw \in ExceptionTexts :
            Exit([error |-> "exception", error_code |-> ErrorCode(kw)], "", 1)
       \/ Exit([error |-> "Invalid JSON from Gemini", error_code |-> "schema_error"], "", 1)
    /\ UNCHANGED <<prog, api_key, image_exists, annotate, width, height,
                   response, elements, errors, validated, refs_assigned, drawn,
                   out_size, contours, result, annotated_written>>

\* generate_content and json.loads give a forest of one of the given shapes
\* with nodes of the given kinds
SnapCallGemini(shapes, kinds) ==
    /\ prog = "snapshot" /\ pc = "call_api"
    /\ api_called' = TRUE
    /\ \E n \in DOMAIN shapes : \E sh \in shapes[n] : \E ks \in [1..n -> kinds] :
          LET tree == BuildForest(sh, ks, 1, <<>>)
          IN /\ response' = tree
             /\ elements' = tree
    /\ pc' = "validate"
    /\ UNCHANGED <<prog, api_key, image_exists, annotate, width, height,
                   errors, validated, refs_assigned, drawn, out_size, contours,
                   result, stdout, stderr, exit_status, annotated_written>>

SnapValidate ==
    /\ prog = "snapshot" /\ pc = "validate"
    /\ LET r == validate_each(elements, width, height, <<>>, <<>>, 0)
       IN /\ elements' = r.els
          /\ errors' = r.errors
    /\ validated' = TRUE
    /\ pc' = "assign_refs"
    /\ UNCHANGED <<prog, api_key, image_exists, annotate, width, height,
                   response, refs_assigned, drawn, out_size, contours, result,
                   stdout, stderr, exit_status, api_called, annotated_written>>

SnapAssignRefs ==
    /\ prog = "snapshot" /\ pc = "assign_refs"
    /\ elements' = assign_refs(elements, 1).els
    /\ refs_assigned' = TRUE
    /\ pc' = "build_result"
    /\ UNCHANGED <<prog, api_key, image_exists, annotate, width, height,
                   response, errors, validated, drawn, out_size, contours,
                   result, stdout, stderr, exit_status, api_called,
                   annotated_written>>

SnapBuildResult ==
    /\ prog = "snapshot" /\ pc = "build_result"
    /\ LET base == [width |-> width, height |-> height, model |-> MODEL,
                    elements |-> elements]
       IN result' = IF errors # <<>>
                    THEN base @@ [validation_warnings |-> errors]
                    ELSE base
    /\ pc' = IF annotate THEN "annotate" ELSE "emit"
    /\ UNCHANGED <<prog, api_key, image_exists, annotate, width, height,
                   response, elements, errors, validated, refs_assigned, drawn,
                   out_size, contours, stdout, stderr, exit_status, api_called,
                   annotated_written>>

\* draw_annotations(...) with a font whose label texts have one of the given
\* sizes; an exception raised while drawing reaches the except-Exception
\* handler before the image is saved
SnapAnnotate(sizes) ==
    /\ prog = "snapshot" /\ pc = "annotate"
    /\ \E ts \in sizes :
       LET d == draw_annotations(elements, width, height, ts)
       IN /\ drawn' = d.drawn
          /\ IF d.ok
             THEN /\ annotated_written' = TRUE
                  /\ result' = result @@ [annotated_image |-> AnnotatedPath]
                  /\ pc' = "emit"
                  /\ UNCHANGED <<stdout, stderr, exit_status>>
             ELSE /\ Exit([error |-> "exception", error_code |-> ErrorCode({})], "", 1)
                  /\ UNCHANGED <<annotated_written, result>>
    /\ UNCHANGED <<prog, api_key, image_exists, annotate, width, height,
                   response, elements, errors, validated, refs_assigned,
                   out_size, contours, api_called>>

SnapEmit ==
    /\ prog = "snapshot" /\ pc = "emit"
    /\ Exit(result, "", 0)
    /\ UNCHANGED <<prog, api_key, image_exists, annotate, width, height,
                   response, elements, errors, validated, refs_assigned, drawn,
                   out_size, contours, result, api_called, annotated_written>>

LocCheckKey ==
    /\ prog = "locate" /\ pc = "check_key"
    /\ IF ~api_key
       THEN Exit(Nothing, "Error: GEMINI_API_KEY not set", 1)
       ELSE /\ pc' = "open_image"
            /\ UNCHANGED <<stdout, stderr, exit_status>>
    /\ UNCHANGED <<prog, api_key, image_exists, annotate, width, height,
                   response, elements, errors, validated, refs_assigned, drawn,
                   out_size, contours, result, api_called, annotated_written>>

\* Image.open(image_path); FileNotFoundError is not caught anywhere, the
\* interpreter prints the traceback and exits with status 1
LocOpenImage ==
    /\ prog = "locate" /\ pc = "open_image"
    /\ IF ~image_exists
       THEN Exit(Nothing, "Traceback: FileNotFoundError", 1)
       ELSE /\ pc' = "call_api"
            /\ UNCHANGED <<stdout, stderr, exit_status>>
    /\ UNCHANGED <<prog, api_key, image_exists, annotate, width, height,
                   response, elements, errors, validated, refs_assigned, drawn,
                   out_size, contours, result, api_called, annotated_written>>

\* generate_content, the search for an image part and output_image.save
LocCallGemini ==
    /\ prog = "locate" /\ pc = "call_api"
    /\ api_called' = TRUE
    /\ \/ /\ Exit(Nothing, "Traceback: exception", 1)
          /\ UNCHANGED <<result, out_size, annotated_written>>
       \/ /\ result' = [detected |-> FALSE, error |-> "No image in API response"]
          /\ pc' = "emit"
          /\ UNCHANGED <<out_size, annotated_written, stdout, stderr, exit_status>>
       \/ \E ow \in LocateSides, oh \in LocateSides :
            /\ out_size' = <<ow, oh>>
            /\ annotated_written' = TRUE
            /\ pc' = "detect"
            /\ UNCHANGED <<result, stdout, stderr, exit_status>>
    /\ UNCHANGED <<prog, api_key, image_exists, annotate, width, height,
                   response, elements, errors, validated, refs_assigned, drawn,
                   contours>>

\* threshold, morphology and findContours give the contours; the rest of
\* locate() turns them into the result
LocDetect(found) ==
    /\ prog = "locate" /\ pc = "detect"
    /\ \E cs \in found :
            /\ contours' = cs
            /\ result' = Detect(cs, out_size[1], out_size[2], width, height)
    /\ pc' = "emit"
    /\ UNCHANGED <<prog, api_key, image_exists, annotate, width, height,
                   response, elements, errors, validated, refs_assigned, drawn,
                   out_size, stdout, stderr, exit_status, api_called,
                   annotated_written>>

\* print(json.dumps(result)); sys.exit(0 if result["detected"] else 1)
LocEmit ==
    /\ prog = "locate" /\ pc = "emit"
    /\ Exit(result, "", IF result.detected THEN 0 ELSE 1)
    /\ UNCHANGED <<prog, api_key, image_exists, annotate, width, height,
                   response, elements, errors, validated, refs_assigned, drawn,
                   out_size, contours, result, api_called, annotated_written>>

Next ==
    \/ SnapCheckKey
    \/ SnapCheckFile
    \/ SnapCallGeminiFails
    \/ SnapCallGemini(SmallShapes, NodeKinds)
    \/ SnapValidate
    \/ SnapAssignRefs
    \/ SnapBuildResult
    \/ SnapAnnotate(SmallText)
    \/ SnapEmit
    \/ LocCheckKey
    \/ LocOpenImage
    \/ LocCallGemini
    \/ LocDetect(SeqsUpTo(CornerRegions(out_size[1], out_size[2]), MaxContours))
    \/ LocEmit

Spec == Init /\ [][Next]_vars

\* the tree generator on forests of more nodes than the palette has colors
NextRender ==
    \/ SnapCheckKey
    \/ SnapCheckFile
    \/ SnapCallGeminiFails
    \/ SnapCallGemini(RenderShapes, RenderKinds)
    \/ SnapValidate
    \/ SnapAssignRefs
    \/ SnapBuildResult
    \/ SnapAnnotate(SmallText)
    \/ SnapEmit

InitRender ==
    /\ prog = "snapshot"
    /\ annotate = TRUE
    /\ width = 2 /\ height = 3
    /\ InitCommon

SpecRender == InitRender /\ [][NextRender]_vars

\* the tree generator with --annotate on images of a few label widths, with
\* boxes at the top left, towards and at the bottom right, and label texts
\* of every size up to MaxText
LabelSides == { 7, 10 }
LabelKinds ==
    { [bounding_box |-> <<0, 0, 1, 1>>,     role |-> "button"],
      [bounding_box |-> <<4, 5, 6, 7>>,     role |-> "link"],
      [bounding_box |-> <<8, 9, 10, 10>>,   role |-> "img"],
      [bounding_box |-> <<2, 0, 1, 1>>,     role |-> "button"] }  \* y inverted
LabelShapes == [n \in 1..2 |-> ForestShapes(n, 2)]

NextLabel ==
    \/ SnapCheckKey
    \/ SnapCheckFile
    \/ SnapCallGeminiFails
    \/ SnapCallGemini(LabelShapes, LabelKinds)
    \/ SnapValidate
    \/ SnapAssignRefs
    \/ SnapBuildResult
    \/ SnapAnnotate(TextSizes)
    \/ SnapEmit

InitLabel ==
    /\ prog = "snapshot"
    /\ annotate = TRUE
    /\ width \in LabelSides
    /\ height \in LabelSides
    /\ InitCommon

SpecLabel == InitLabel /\ [][NextLabel]_vars

\* the marker locator on a single marker, centred anywhere
NextRemap ==
    \/ LocCheckKey
    \/ LocOpenImage
    \/ LocCallGemini
    \/ LocDetect({ <<r>> : r \in MarkerRegions(out_size[1], out_size[2]) })
    \/ LocEmit

SpecRemap == InitLocate /\ [][NextRemap]_vars

(***************************************************************************)
(* Nodes of a forest by position                                           *)
(***************************************************************************)
\* the positions of all nodes: <<i, j, ..>> is elements[i].children[j]...
RECURSIVE NodePaths(_)
NodePaths(els) ==
    UNION { { <<i - 1>> } \cup { <<i - 1>> \o p : p \in NodePaths(els[i].children) } :
              i \in 1..Len(els) }

RECURSIVE NodeAt(_, _)
NodeAt(els, p) ==
    IF Len(p) = 1 THEN els[p[1] + 1]
    ELSE NodeAt(els[p[1] + 1].children, Tail(p))

Ancestors(p) == { SubSeq(p, 1, k) : k \in 1..(Len(p) - 1) }
IsAncestor(q, p) == q \in Ancestors(p)
\* s is a following sibling of p
FollowingSibling(p, s) ==
    /\ Len(s) = Len(p)
    /\ SubSeq(s, 1, Len(s) - 1) = SubSeq(p, 1, Len(p) - 1)
    /\ s[Len(s)] > p[Len(p)]

\* no ancestor of the node at p has a bounding box of other than 4 components
Reached(forest, p) ==
    \A q \in Ancestors(p) : Len(NodeAt(forest, q).bounding_box) = 4

InBounds(bbox, w, h) ==
    /\ bbox[1] \in 0..h /\ bbox[3] \in 0..h
    /\ bbox[2] \in 0..w /\ bbox[4] \in 0..w

WarningsAt(errs, p) == { i \in 1..Len(errs) : errs[i].path = p }
GeometryMsgs == { "invalid bounding_box length", "invalid bbox dimensions" }

(***************************************************************************)
(* Claims                                                                  *)
(***************************************************************************)

\* C1 as stated: after validate every node, at any depth, whose bounding_box
\* has exactly 4 components lies within [0, height] x [0, width].
C1_AllInBounds ==
    validated =>
        \A p \in NodePaths(elements) :
            Len(NodeAt(elements, p).bounding_box) = 4
                => InBounds(NodeAt(elements, p).bounding_box, width, height)

\* C1 amended: after validate every node that has 4 components and no ancestor
\* with a bounding_box of other than 4 components lies within the image; the
\* descendants of a node with another number of components keep their boxes.
C1_ReachedInBounds ==
    validated =>
        \A p \in NodePaths(elements) :
            IF Reached(elements, p)
            THEN Len(NodeAt(elements, p).bounding_box) = 4
                    => InBounds(NodeAt(elements, p).bounding_box, width, height)
            ELSE NodeAt(elements, p).bounding_box = NodeAt(response, p).bounding_box

\* a nested node that validate reached and whose box it brought into bounds
C1_Witness ==
    /\ validated
    /\ \E p \in NodePaths(elements) :
          /\ Len(p) >= 2
          /\ Reached(elements, p)
          /\ Len(NodeAt(response, p).bounding_box) = 4
          /\ ~InBounds(NodeAt(response, p).bounding_box, width, height)
          /\ InBounds(NodeAt(elements, p).bounding_box, width, height)

RefNum(ref, n) == CHOOSE k \in 1..n : Ref(k) = ref

\* C2: assign_refs gives the N nodes of a forest the refs v1..vN, each once,
\* in depth-first pre-order: a node before its descendants, and a node and all
\* its descendants before the node's following siblings.
C2_RefsPreOrder ==
    refs_assigned =>
        LET paths == NodePaths(elements)
            n == Cardinality(paths)
            names == [k \in 1..n |-> Ref(k)]
        IN /\ \A p \in paths : "ref" \in DOMAIN NodeAt(elements, p)
           /\ { NodeAt(elements, p).ref : p \in paths } = { names[k] : k \in 1..n }
           /\ LET ref == [p \in paths |-> NodeAt(elements, p).ref]
                  num == [p \in paths |-> CHOOSE k \in 1..n : names[k] = ref[p]]
              IN /\ \A p, q \in paths : p # q => ref[p] # ref[q]
                 /\ \A p, q \in paths : IsAncestor(p, q) => num[p] < num[q]
                 /\ \A p, s \in paths :
                      FollowingSibling(p, s) =>
                          /\ num[p] < num[s]
                          /\ \A d \in paths : IsAncestor(p, d) => num[d] < num[s]

\* refs assigned to a forest with a node that has a child and a later sibling
C2_Witness ==
    /\ refs_assigned
    /\ \E p, d, s \in NodePaths(elements) :
          /\ IsAncestor(p, d)
          /\ FollowingSibling(p, s)
          /\ NodeAt(elements, d).ref = "v2"
          /\ NodeAt(elements, s).ref = "v3"

\* C3: a node whose bounding_box has other than 4 components gets exactly one
\* warning, for the length, at its own path; no descendant of it gets any
\* warning; every other node gets exactly the order and role warnings that
\* its own box and role call for.
C3_MalformedStopsDescent ==
    validated =>
        \A p \in NodePaths(response) :
            LET node == NodeAt(response, p)
                at == WarningsAt(errors, p)
                msgs(m) == { i \in at : errors[i].msg = m }
            IN IF ~Reached(response, p) THEN at = {}
               ELSE IF Len(node.bounding_box) # 4
               THEN /\ Cardinality(at) = 1
                    /\ \A i \in at : errors[i].msg = "invalid bounding_box length"
               ELSE /\ msgs("invalid bounding_box length") = {}
                    /\ Cardinality(msgs("invalid bbox dimensions")) =
                         (IF node.bounding_box[1] > node.bounding_box[3]
                             \/ node.bounding_box[2] > node.bounding_box[4]
                          THEN 1 ELSE 0)
                    /\ Cardinality(msgs("invalid role")) =
                         (IF node.role \in ARIA_ROLES THEN 0 ELSE 1)
                    /\ at = msgs("invalid bbox dimensions") \cup msgs("invalid role")

\* a malformed node with a faulty child and a following sibling that is warned
C3_Witness ==
    /\ validated
    /\ \E p, d, s \in NodePaths(response) :
          /\ Len(NodeAt(response, p).bounding_box) \in {3, 5}
          /\ Reached(response, p)
          /\ IsAncestor(p, d)
          /\ \/ Len(NodeAt(response, d).bounding_box) # 4
             \/ NodeAt(response, d).role \notin ARIA_ROLES
          /\ FollowingSibling(p, s)
          /\ WarningsAt(errors, s) # {}
          /\ WarningsAt(errors, d) = {}
          /\ Cardinality(WarningsAt(errors, p)) = 1

\* the result of validating the validated forest once more
Revalidated == validate_each(elements, width, height, <<>>, <<>>, 0)

\* C4 as stated: a second validate of the validated forest, against the same
\* size, changes no bounding_box and gives no geometry warning.
C4_SecondRunSilent ==
    validated =>
        LET second == Revalidated
        IN /\ second.els = elements
           /\ \A i \in 1..Len(second.errors) :
                 second.errors[i].msg \notin GeometryMsgs

\* C4 amended: a second validate of the validated forest changes no
\* bounding_box and gives a geometry warning only where the first validate
\* gave the same kind of warning for the same node.
C4_SecondRunNothingNew ==
    validated =>
        LET second == Revalidated
        IN /\ second.els = elements
           /\ \A i \in 1..Len(second.errors) :
                 second.errors[i].msg \in GeometryMsgs =>
                     \E j \in 1..Len(errors) :
                         /\ errors[j].path = second.errors[i].path
                         /\ errors[j].msg = second.errors[i].msg

\* validate clamped a box, warned about its order, and a second validate
\* neither changes it nor warns about it
C4_Witness ==
    /\ validated
    /\ LET second == Revalidated
       IN /\ second.els = elements
          /\ \E p \in NodePaths(elements) :
                /\ Reached(elements, p)
                /\ Len(NodeAt(response, p).bounding_box) = 4
                /\ NodeAt(response, p).bounding_box # NodeAt(elements, p).bounding_box
                /\ \E j \in WarningsAt(errors, p) :
                      errors[j].msg = "invalid bbox dimensions"
                /\ \A i \in WarningsAt(second.errors, p) :
                      second.errors[i].msg \notin GeometryMsgs

\* C5 as stated: every box that validate clamped has y_min <= y_max and
\* x_min <= x_max.
C5_ClampedOrdered ==
    validated =>
        \A p \in NodePaths(elements) :
            (Reached(elements, p) /\ Len(NodeAt(elements, p).bounding_box) = 4) =>
                LET out == NodeAt(elements, p).bounding_box
                IN out[1] <= out[3] /\ out[2] <= out[4]

\* C5 amended: a box that validate clamped has y_min <= y_max if the box it
\* was given had, and x_min <= x_max if the box it was given had; a box given
\* inverted on an axis is never put in order on it (it stays inverted or
\* collapses to equal coordinates).
C5_ClampKeepsOrder ==
    validated =>
        \A p \in NodePaths(elements) :
            (Reached(elements, p) /\ Len(NodeAt(elements, p).bounding_box) = 4) =>
                LET in == NodeAt(response, p).bounding_box
                    out == NodeAt(elements, p).bounding_box
                IN /\ in[1] <= in[3] => out[1] <= out[3]
                   /\ in[2] <= in[4] => out[2] <= out[4]
                   /\ in[1] > in[3] => out[1] >= out[3]
                   /\ in[2] > in[4] => out[2] >= out[4]

\* an ordered box that lay outside the image and was clamped
C5_Witness ==
    /\ validated
    /\ \E p \in NodePaths(elements) :
          LET in == NodeAt(response, p).bounding_box
              out == NodeAt(elements, p).bounding_box
          IN /\ Reached(elements, p)
             /\ Len(in) = 4
             /\ in[1] <= in[3] /\ in[2] <= in[4]
             /\ in # out
             /\ out[1] < out[3] /\ out[2] <= out[4]

\* C6: after assign_refs the k-th node of the renderer's flattened list
\* carries ref v<k>; a drawn node with ref v<k> has palette entry (k-1) mod 7
\* of the 7-entry palette, so nodes k and k+7 share a color and nodes less
\* than 7 apart differ in color, whichever nodes were skipped.
C6_ColorFollowsRef ==
    refs_assigned =>
        LET flat == flatten(elements)
            n == Len(flat)
            num(i) == RefNum(drawn[i].ref, n)
        IN /\ Len(OKABE_ITO_COLORS) = 7
           /\ \A k \in 1..n : flat[k].ref = Ref(k)
           /\ \A i \in 1..Len(drawn) :
                /\ drawn[i].ref \in { Ref(k) : k \in 1..n }
                /\ drawn[i].color = OKABE_ITO_COLORS[((num(i) - 1) % 7) + 1]
           /\ \A i, j \in 1..Len(drawn) :
                /\ num(j) = num(i) + 7 => drawn[j].color = drawn[i].color
                /\ (num(i) < num(j) /\ num(j) < num(i) + 7)
                       => drawn[j].color # drawn[i].color

\* nodes v1 and v8 were drawn, with a skipped node somewhere between them
C6_Witness ==
    /\ pc = "done"
    /\ exit_status = 0
    /\ \E i, j \in 1..Len(drawn) :
          /\ drawn[i].ref = "v1"
          /\ drawn[j].ref = "v8"
          /\ drawn[i].color = drawn[j].color
          /\ j - i < 7
    /\ \E k \in 1..Len(flatten(elements)) :
          /\ flatten(elements)[k].children # <<>>
          /\ k > 1

Abs(v) == IF v < 0 THEN -v ELSE v

\* C7: for a marker of centroid (m10/m00, m01/m00) on an annotated image of
\* size (ow, oh) and an original of size (iw, ih), the reported x is the
\* integer nearest to (cx / ow) * iw and y the one nearest to (cy / oh) * ih,
\* hence within 2 pixels of the centroid expressed in the original's grid.
C7_RemapWithinTwoPixels ==
    (prog = "locate" /\ pc \in {"emit", "done"} /\ "x" \in DOMAIN result) =>
        LET M == Largest(contours)
            xerr == Abs(result.x * M.m00 * out_size[1] - M.m10 * width)
            yerr == Abs(result.y * M.m00 * out_size[2] - M.m01 * height)
        IN /\ 2 * xerr <= M.m00 * out_size[1]
           /\ 2 * yerr <= M.m00 * out_size[2]
           /\ xerr <= 2 * M.m00 * out_size[1]
           /\ yerr <= 2 * M.m00 * out_size[2]
           /\ result.x \in 0..width
           /\ result.y \in 0..height

\* a marker off the pixel grid, located through an upscale in x and a
\* downscale in y
C7_Witness ==
    /\ prog = "locate" /\ pc = "done"
    /\ "x" \in DOMAIN result
    /\ out_size[1] < width
    /\ out_size[2] > height
    /\ contours[1].m10 % contours[1].m00 # 0
    /\ result.x > out_size[1]
    /\ result.y > 0

\* C8: once the annotated image is saved the locator ends in one of two
\* ways: {detected: false, error, annotated_image}, with "No marker detected"
\* for no contour and "Invalid marker shape" for a largest contour of zeroth
\* moment 0, or {detected: true, x, y, ..}; a failure carries no location and
\* carries the annotated image's path whenever it was written; the exit
\* status is 0 when detected is true and 1 otherwise.
C8_TwoOutcomes ==
    (prog = "locate" /\ pc \in {"emit", "done"}) =>
        /\ annotated_written =>
             IF contours = <<>>
             THEN result = [detected |-> FALSE, error |-> "No marker detected",
                            annotated_image |-> AnnotatedPath]
             ELSE IF \A i \in 1..Len(contours) : contours[i].m00 = 0
             THEN result = [detected |-> FALSE, error |-> "Invalid marker shape",
                            annotated_image |-> AnnotatedPath]
             ELSE /\ result.detected
                  /\ {"x", "y", "annotated_image"} \subseteq DOMAIN result
                  /\ "error" \notin DOMAIN result
        /\ ("detected" \in DOMAIN result /\ ~result.detected) =>
             /\ "error" \in DOMAIN result
             /\ DOMAIN result \cap {"x", "y"} = {}
             /\ ("annotated_image" \in DOMAIN result) = annotated_written
        /\ pc = "done" =>
             /\ exit_status \in {0, 1}
             /\ (exit_status = 0) = ("detected" \in DOMAIN result /\ result.detected)
             /\ "detected" \in DOMAIN result => stdout = result

\* a marker detected behind a contour of no area; the run exits with 0
C8_Witness ==
    /\ prog = "locate" /\ pc = "done"
    /\ Len(contours) >= 2
    /\ contours[1].m00 = 0
    /\ stdout.detected
    /\ exit_status = 0

\* C9: in both programs a run without the credential or without the image
\* file never invokes the vision model and writes no annotated image, and it
\* ends with status 1 and the error reported; the credential is checked
\* first, so without it the credential error is the one reported.
C9_InputErrorsFatal ==
    /\ (api_called \/ annotated_written) => (api_key /\ image_exists)
    /\ (pc = "done" /\ ~(api_key /\ image_exists)) =>
          /\ exit_status = 1
          /\ ~api_called
          /\ ~annotated_written
          /\ IF prog = "snapshot"
             THEN stdout.error_code =
                      (IF ~api_key THEN "auth_missing" ELSE "file_not_found")
             ELSE stderr = (IF ~api_key THEN "Error: GEMINI_API_KEY not set"
                            ELSE "Traceback: FileNotFoundError")

\* a finished run that had neither the credential nor the image file
C9_Witness ==
    /\ pc = "done"
    /\ ~api_key
    /\ ~image_exists
    /\ exit_status = 1

\* C10: whatever forest the model returned, the tree generator gives every
\* node a ref, prints the result with the elements and exits with status 0;
\* the output has validation_warnings exactly when a warning was recorded and
\* annotated_image exactly when --annotate was given.
C10_GeometryNonFatal ==
    (prog = "snapshot" /\ pc = "done" /\ validated) =>
        /\ exit_status = 0
        /\ \A p \in NodePaths(elements) : "ref" \in DOMAIN NodeAt(elements, p)
        /\ "elements" \in DOMAIN stdout
        /\ stdout.elements = elements
        /\ ("validation_warnings" \in DOMAIN stdout) = (errors # <<>>)
        /\ ("annotated_image" \in DOMAIN stdout) = annotate

\* C11: for every drawn node (its box clamped by validate), every text size
\* and every image size, the label's background rectangle
\* [label_x - 2, label_x + text_width + 2] x [label_y - 2, label_y +
\* text_height + 2] lies on the canvas: 0 <= label_x - 2, label_x +
\* text_width + 2 <= width, 0 <= label_y - 2, label_y + text_height + 2 <=
\* height.
C11_LabelOnCanvas ==
    validated =>
        \A i \in 1..Len(drawn) :
            /\ 0 <= drawn[i].label_x - 2
            /\ drawn[i].label_x + drawn[i].text_width + 2 <= width
            /\ 0 <= drawn[i].label_y - 2
            /\ drawn[i].label_y + drawn[i].text_height + 2 <= height

====
